---- MODULE Spec2Model ----
(***************************************************************************)
(* A model of the header-compression test harness (compare_compressors.py) *)
(* and of the delta codec (compressor/simple), with the shared helpers of  *)
(* compressor/__init__.py.                                                 *)
(*                                                                         *)
(* Python strings are modelled as sequences of tokens ("Text").  A token   *)
(* is an indivisible chunk of characters; every character the code looks   *)
(* at on its own (":", "!", ",", ";", ".", "/", "*", blank, newline, NUL)  *)
(* is a token of its own, so that split, strip, startswith and endswith    *)
(* are computed on the token sequence exactly as the code computes them on *)
(* the characters.  A Python dict is a function from Text keys to values.  *)
(***************************************************************************)
EXTENDS Integers, Sequences, FiniteSets, TLC

----------------------------------------------------------------------------
(* Bounds of the model.                                                    *)

\* the number of request/response pairs of a harness run
MaxPairs == 2
\* the number of compress calls on the codec instance of SpecCodec
MaxCalls == 2

----------------------------------------------------------------------------
(* Python string methods on Text.                                          *)

SP == " "
LF == "\n"
CR == "\r"
\* the NUL character ('\x00') that joins the occurrences of a repeated header
NUL == "\\0"

Whitespace == {SP, LF, CR, "\t"}

\* len(s): every token counts its characters, NUL is one character
RECURSIVE PyLen(_)
PyLen(t) ==
  IF t = <<>> THEN 0
  ELSE (IF Head(t) = NUL THEN 1 ELSE Len(Head(t))) + PyLen(Tail(t))

\* s.lstrip()
RECURSIVE LStrip(_)
LStrip(t) ==
  IF t # <<>> /\ Head(t) \in Whitespace THEN LStrip(Tail(t)) ELSE t

\* s.rstrip()
RECURSIVE RStrip(_)
RStrip(t) ==
  IF t # <<>> /\ t[Len(t)] \in Whitespace THEN RStrip(SubSeq(t, 1, Len(t) - 1))
  ELSE t

\* s.strip()
Strip(t) == LStrip(RStrip(t))

\* s.lstrip(' ')
RECURSIVE LStripSP(_)
LStripSP(t) ==
  IF t # <<>> /\ Head(t) = SP THEN LStripSP(Tail(t)) ELSE t

\* the index of the first token of t that is in S, Len(t) + 1 when none is
FirstIn(t, S) ==
  IF \E i \in 1..Len(t) : t[i] \in S
  THEN CHOOSE i \in 1..Len(t) : t[i] \in S /\ \A j \in 1..(i - 1) : t[j] \notin S
  ELSE Len(t) + 1

\* s.split(sep) for a one-character sep
RECURSIVE Split(_, _)
Split(t, sep) ==
  LET i == FirstIn(t, {sep})
  IN  IF i > Len(t) THEN <<t>>
      ELSE <<SubSeq(t, 1, i - 1)>> \o Split(SubSeq(t, i + 1, Len(t)), sep)

\* s.split(None, k): at most k splits at runs of whitespace
RECURSIVE SplitWSMax(_, _)
SplitWSMax(t, k) ==
  LET s == LStrip(t)
      i == FirstIn(s, Whitespace)
  IN  IF s = <<>> THEN <<>>
      ELSE IF k = 0 THEN <<s>>
      ELSE <<SubSeq(s, 1, i - 1)>> \o SplitWSMax(SubSeq(s, i, Len(s)), k - 1)

\* s.split(None)
SplitWS(t) == SplitWSMax(t, Len(t))

\* sep.join(parts)
RECURSIVE Join(_, _)
Join(parts, sep) ==
  IF parts = <<>> THEN <<>>
  ELSE IF Len(parts) = 1 THEN parts[1]
  ELSE parts[1] \o sep \o Join(Tail(parts), sep)

\* s.endswith(suffix)
EndsWith(t, suffix) ==
  /\ Len(suffix) <= Len(t)
  /\ SubSeq(t, Len(t) - Len(suffix) + 1, Len(t)) = suffix

\* s.startswith(prefix)
StartsWith(t, prefix) ==
  /\ Len(prefix) <= Len(t)
  /\ SubSeq(t, 1, Len(prefix)) = prefix

\* s.lower(): the tokens with an upper-case letter that the model draws
LowerTable ==
  ("Host" :> "host") @@ ("Server" :> "server") @@ ("S" :> "s")

Lower(t) ==
  [i \in 1..Len(t) |-> IF t[i] \in DOMAIN LowerTable THEN LowerTable[t[i]] ELSE t[i]]

\* the order of Python's string comparison on the tokens that sorted() meets
\* (ASCII order: NUL < blank < letters)
Collation == <<NUL, SP, "a=1", "b=2", "c=3">>

Rank(tok) ==
  IF \E i \in 1..Len(Collation) : Collation[i] = tok
  THEN CHOOSE i \in 1..Len(Collation) : Collation[i] = tok
  ELSE Len(Collation) + 1

\* s1 <= s2
RECURSIVE TextLeq(_, _)
TextLeq(a, b) ==
  IF a = <<>> THEN TRUE
  ELSE IF b = <<>> THEN FALSE
  ELSE IF Rank(Head(a)) # Rank(Head(b)) THEN Rank(Head(a)) < Rank(Head(b))
  ELSE TextLeq(Tail(a), Tail(b))

\* sorted(parts)
RECURSIVE Insert(_, _)
Insert(x, sorted) ==
  IF sorted = <<>> THEN <<x>>
  ELSE IF TextLeq(x, Head(sorted)) THEN <<x>> \o sorted
  ELSE <<Head(sorted)>> \o Insert(x, Tail(sorted))

RECURSIVE Sorted(_)
Sorted(parts) ==
  IF parts = <<>> THEN <<>> ELSE Insert(Head(parts), Sorted(Tail(parts)))

----------------------------------------------------------------------------
(* Python dicts.                                                           *)

EmptyDict == <<>>

\* d with the keys of K deleted
Without(d, K) == [k \in DOMAIN d \ K |-> d[k]]

\* d[k] = v
Put(d, k, v) == [x \in DOMAIN d \cup {k} |-> IF x = k THEN v ELSE d[x]]

\* the order in which a dict is iterated: some fixed order of its keys
RECURSIVE KeyOrder(_)
KeyOrder(S) ==
  IF S = {} THEN <<>>
  ELSE LET x == CHOOSE x \in S : TRUE IN <<x>> \o KeyOrder(S \ {x})

\* the elements of a sequence
Range(s) == {s[i] : i \in 1..Len(s)}

----------------------------------------------------------------------------
(* The header model: names and the results of operations that may raise.   *)

K_method      == <<":", "method">>
K_path        == <<":", "path">>
K_version     == <<":", "version">>
K_scheme      == <<":", "scheme">>
K_host        == <<":", "host">>
K_status      == <<":", "status">>
K_status_text == <<":", "status-text">>
K_cookie      == <<"cookie">>
K_connection  == <<"connection">>
K_ref         == <<"ref">>

\* the outcome of a call: err = "" and the value, or the exception raised
Ok(v)      == [err |-> "", val |-> v]
Raise(e)   == [err |-> e, val |-> EmptyDict]

----------------------------------------------------------------------------
(* compressor/__init__.py                                                  *)

\* strip_conn_headers: the names it deletes from hdrs
HopByHop(hdrs) ==
  {<<"transfer-encoding">>, <<"te">>, <<"keep-alive">>, <<"trailers">>}
  \cup (IF K_connection \in DOMAIN hdrs
        THEN {Strip(v) : v \in Range(SplitWS(hdrs[K_connection]))} \cup {K_connection}
        ELSE {})

strip_conn_headers(hdrs) == Without(hdrs, HopByHop(hdrs))

\* format_http1: the lines of one header, one per NUL-separated occurrence
RECURSIVE HeaderLines(_, _, _, _)
HeaderLines(key, vals, valsep, delimiter) ==
  IF vals = <<>> THEN <<>>
  ELSE key \o valsep \o Head(vals) \o delimiter
       \o HeaderLines(key, Tail(vals), valsep, delimiter)

RECURSIVE FrameLines(_, _, _, _, _, _)
FrameLines(frame, keys, avoid, valsep, delimiter, host) ==
  IF keys = <<>> THEN <<>>
  ELSE LET key == Head(keys)
           rest == FrameLines(frame, Tail(keys), avoid, valsep, delimiter, host)
       IN  IF key \in avoid THEN rest
           ELSE HeaderLines(IF key = K_host THEN host ELSE key,
                            Split(frame[key], NUL), valsep, delimiter) \o rest

\* format_http1: the top line, the header lines and the empty line
FormatFrame(frame, top, avoid, delimiter, valsep, host) ==
  IF \E i \in 1..3 : top[i] \notin DOMAIN frame THEN Raise("KeyError")
  ELSE Ok(frame[top[1]] \o <<SP>> \o frame[top[2]] \o <<SP>> \o frame[top[3]]
          \o delimiter
          \o FrameLines(frame, KeyOrder(DOMAIN frame), avoid, valsep, delimiter, host)
          \o delimiter)

format_http1(frame, delimiter, valsep, host) ==
  IF K_method \in DOMAIN frame
  THEN FormatFrame(frame, <<K_method, K_path, K_version>>,
                   {K_method, K_path, K_version, K_scheme}, delimiter, valsep, host)
  ELSE FormatFrame(frame, <<K_version, K_status, K_status_text>>,
                   {K_version, K_status, K_status_text}, delimiter, valsep, host)

\* parse_http1: the loop over the header lines, up to the first empty line
RECURSIVE ParseLines(_, _)
ParsedLine(nv, out) ==
  Put(out, Lower(nv[1]),
      IF Lower(nv[1]) \in DOMAIN out
      THEN out[Lower(nv[1])] \o <<NUL>> \o Strip(Join(Tail(nv), <<":">>))
      ELSE Strip(Join(Tail(nv), <<":">>)))

SplitLine(nv, rest, out) ==
  IF Len(nv) < 2 THEN Raise("ValueError") ELSE ParseLines(rest, ParsedLine(nv, out))

ParseLines(lines, out) ==
  IF lines = <<>> \/ Head(lines) = <<>> THEN Ok(out)
  ELSE SplitLine(Split(Head(lines), ":"), Tail(lines), out)

\* parse_http1: the header structure made of the top line and the lines
ParsedMessage(top_line, out) ==
  IF Len(top_line) < 3 THEN Raise("IndexError")
  ELSE IF <<"host">> \in DOMAIN out
  THEN Ok([k \in (DOMAIN out \ {<<"host">>})
                 \cup {K_scheme, K_method, K_path, K_version, K_host} |->
             IF k = K_scheme THEN <<"http">>
             ELSE IF k = K_method THEN top_line[1]
             ELSE IF k = K_path THEN top_line[2]
             ELSE IF k = K_version THEN Strip(top_line[3])
             ELSE IF k = K_host THEN out[<<"host">>]
             ELSE out[k]])
  ELSE Ok([k \in DOMAIN out \cup {K_version, K_status, K_status_text} |->
             IF k = K_version THEN top_line[1]
             ELSE IF k = K_status THEN top_line[2]
             ELSE IF k = K_status_text THEN Strip(top_line[3])
             ELSE out[k]])

ParsedLines(top_line, parsed) ==
  IF parsed.err # "" THEN parsed ELSE ParsedMessage(top_line, parsed.val)

SplitMessage(lines) ==
  ParsedLines(SplitWSMax(lines[1], 2), ParseLines(Tail(lines), EmptyDict))

parse_http1(message) == SplitMessage(Split(Strip(message), LF))

----------------------------------------------------------------------------
(* compressor/simple/__init__.py: dates                                    *)

\* The date strings the model draws.  A date string is one token; the table
\* gives what the DATE pattern and email.utils.parsedate find in it: the
\* grammar, the year as written, and the seconds from the start of that year
\* to the instant.
DateForms ==
  { [tok |-> "Thu, 01 Jan 1970 00:00:00 GMT",    gram |-> "rfc1123", year |-> 1970, rest |-> 0],
    [tok |-> "Thursday, 01-Jan-70 00:00:00 GMT", gram |-> "rfc850",  year |-> 70,   rest |-> 0],
    [tok |-> "Thu Jan  1 00:00:00 1970",         gram |-> "asctime", year |-> 1970, rest |-> 0],
    [tok |-> "Fri, 02 Jan 1970 00:00:00 GMT",    gram |-> "rfc1123", year |-> 1970, rest |-> 86400],
    [tok |-> "Wed, 31 Dec 1969 23:59:59 GMT",    gram |-> "rfc1123", year |-> 1969, rest |-> 31535999],
    [tok |-> "Thursday, 01-Jan-37 00:00:00 GMT", gram |-> "rfc850",  year |-> 37,   rest |-> 0],
    [tok |-> "Thu, 01 Jan 2037 00:00:00 GMT",    gram |-> "rfc1123", year |-> 2037, rest |-> 0],
    [tok |-> "Wednesday, 01-Jan-69 00:00:00 GMT", gram |-> "rfc850", year |-> 69,   rest |-> 0],
    [tok |-> "Wed, 01 Jan 1969 00:00:00 GMT",    gram |-> "rfc1123", year |-> 1969, rest |-> 0] }

\* calendar.timegm: the days from 1970-01-01 to the first day of a year
DaysBeforeYear(y) ==
  (y - 1970) * 365 + ((y - 1969) \div 4) - ((y - 1901) \div 100) + ((y - 1601) \div 400)

timegm(year, rest) == DaysBeforeYear(year) * 86400 + rest

\* a faulty reading of a year, which takes every year of two digits for one
\* of the twentieth century
FullYear1900(year) == IF year < 100 THEN year + 1900 ELSE year

\* parse_date: date_tuple[0], the year once a year below 100 is completed
FullYear(year) ==
  IF year < 100
  THEN (IF year > 68 THEN year + 1900 ELSE year + 2000)
  ELSE year

\* parse_date(value): the seconds since the epoch, or ValueError
parse_date(value) ==
  IF Len(value) = 1 /\ \E f \in DateForms : f.tok = value[1]
  THEN LET f == CHOOSE f \in DateForms : f.tok = value[1]
       IN  Ok(timegm(FullYear(f.year), f.rest))
  ELSE Raise("ValueError")

\* the instants of the date strings of the model
Instants == {parse_date(<<f.tok>>).val : f \in DateForms}

\* format_date(value): the RFC 1123 string of an instant
format_date(value) ==
  <<(CHOOSE f \in DateForms :
       f.gram = "rfc1123" /\ parse_date(<<f.tok>>).val = value).tok>>

\* "%x" % n
HexDigit == <<"0", "1", "2", "3", "4", "5", "6", "7", "8", "9",
              "a", "b", "c", "d", "e", "f">>

RECURSIVE HexNat(_)
HexNat(n) ==
  IF n < 16 THEN HexDigit[n + 1] ELSE HexNat(n \div 16) \o HexDigit[(n % 16) + 1]

Hex(n) == IF n < 0 THEN "-" \o HexNat(0 - n) ELSE HexNat(n)

\* int(s, 16): tokens are indivisible, so the number is found among the
\* instants of the model as the one whose hexadecimal form is the token
PyInt16(s) ==
  IF Len(s) = 1 /\ \E n \in Instants : Hex(n) = s[1]
  THEN Ok(CHOOSE n \in Instants : Hex(n) = s[1])
  ELSE Raise("ValueError")

----------------------------------------------------------------------------
(* compressor/simple/__init__.py: Processor                                *)

\* a faulty table, in which two names have the same token
lookups_colliding ==
  (<<"cookie">> :> <<"c">>) @@
  (<<"content-type">> :> <<"c">>) @@
  (<<"user-agent">> :> <<"ua">>) @@
  (<<"server">> :> <<"s">>)

lookups ==
  (<<"x-content-type-options">> :> <<"xct">>) @@
  (<<"content-encoding">> :> <<"ce">>) @@
  (<<"access-control-allow-origin">> :> <<"ac">>) @@
  (<<"content-type">> :> <<"ct">>) @@
  (<<"accept-language">> :> <<"al">>) @@
  (<<"accept-encoding">> :> <<"ae">>) @@
  (<<"accept-ranges">> :> <<"ar">>) @@
  (<<"user-agent">> :> <<"ua">>) @@
  (<<"server">> :> <<"s">>) @@
  (<<"referer">> :> <<"r">>) @@
  (<<"accept">> :> <<"a">>) @@
  (<<"cookie">> :> <<"c">>) @@
  (<<"last-modified">> :> <<"lm">>) @@
  (<<"cache-control">> :> <<"cc">>) @@
  (<<"pragma">> :> <<"p">>) @@
  (<<"vary">> :> <<"v">>) @@
  (<<"date">> :> <<"d">>) @@
  (<<"expires">> :> <<"x">>) @@
  (<<"content-length">> :> <<"cl">>) @@
  (<<"etag">> :> <<"e">>) @@
  (<<"content-language">> :> <<"la">>) @@
  (<<"via">> :> <<"vi">>) @@
  (<<"set-cookie">> :> <<"sc">>) @@
  (<<"p3p">> :> <<"p3">>)

date_hdrs == {<<"last-modified">>, <<"date">>, <<"expires">>}

\* {v:k for k, v in self.lookups.items()}
rev_lookups ==
  [tok \in {lookups[k] : k \in DOMAIN lookups} |->
     CHOOSE k \in DOMAIN lookups : lookups[k] = tok]

\* Processor.__init__ of the codec module: the exception raised, if any, by
\* assert len(self.lookups) == len(self.rev_lookups)
ProcessorInit(codec) ==
  IF codec = "simple" /\ Cardinality(DOMAIN lookups) # Cardinality(DOMAIN rev_lookups)
  THEN "AssertionError"
  ELSE ""

\* the state of a Processor after __init__; last_c is a reference to a
\* header dict (0: None), last_d a dict of the Processor's own
NoObj == 0
NewProcessor(codec, is_request) ==
  [codec |-> codec, is_request |-> is_request,
   last_c |-> NoObj, last_d_set |-> FALSE, last_d |-> EmptyDict]

hdr_name(name) ==
  IF Head(name) = ":" THEN name
  ELSE IF name \in DOMAIN lookups THEN lookups[name]
  ELSE <<"!">> \o name

\* compress: the value sent for a date header, d being parse_date(value)
DateValue(d, value) == IF d.err = "" THEN <<Hex(d.val)>> ELSE value

\* compress: how one header is sent: as a reference, or on a line with a value
Encoding(last_c, name, value) ==
  IF name \in date_hdrs
  THEN [ref |-> FALSE, value |-> DateValue(parse_date(value), value)]
  ELSE IF /\ last_c # EmptyDict
          /\ Head(name) # ":"
          /\ name \in DOMAIN last_c
          /\ last_c[name] = value
  THEN [ref |-> TRUE, value |-> value]
  ELSE [ref |-> FALSE, value |-> value]

\* compress: the headers dict handed to format_http1, for the encoding enc of
\* every header and the names refs sent as references, in the order of the loop
Headers(enc, refs) ==
  [k \in {hdr_name(n) : n \in {n \in DOMAIN enc : ~enc[n].ref}}
         \cup (IF refs = <<>> THEN {} ELSE {K_ref}) |->
     IF k = K_ref /\ refs # <<>>
     THEN Join([i \in 1..Len(refs) |-> hdr_name(refs[i])], <<",">>)
     ELSE enc[CHOOSE n \in DOMAIN enc : ~enc[n].ref /\ hdr_name(n) = k].value]

Encoded(enc) ==
  Headers(enc, SelectSeq(KeyOrder(DOMAIN enc), LAMBDA n : enc[n].ref))

Frame(last_c, hdrs) ==
  Encoded([n \in DOMAIN hdrs |-> Encoding(last_c, n, hdrs[n])])

\* compress: the value returned, with the heap and the Processor as it leaves them
Compressed(out, heap1, proc, obj) ==
  [err |-> out.err, wire |-> out.val, heap |-> heap1,
   proc |-> [proc EXCEPT !.last_c = obj]]

\* compress, once strip_conn_headers has changed in_headers in place
CompressStripped(proc, heap1, obj) ==
  Compressed(format_http1(Frame(IF proc.last_c = NoObj THEN EmptyDict
                                ELSE heap1[proc.last_c],
                                heap1[obj]),
                          <<LF>>, <<":">>, <<"host">>),
             heap1, proc, obj)

\* Processor.compress(in_headers, host) on the heap of header dicts: in_headers
\* is the reference obj.  strip_conn_headers changes the dict in place, and
\* last_c keeps the reference, not a copy.
compress(proc, heap, obj, host) ==
  CompressStripped(proc, [heap EXCEPT ![obj] = strip_conn_headers(heap[obj])], obj)

\* decompress: the value of a date header, n being int(value, 16)
DecodedDate(n, value) == IF n.err = "" THEN format_date(n.val) ELSE value

\* decompress: the name and the value a parsed line stands for
Expanded(name, value) ==
  IF name = <<>> THEN [err |-> "IndexError", name |-> name, value |-> value]
  ELSE IF Head(name) = ":" THEN [err |-> "", name |-> name, value |-> value]
  ELSE IF Head(name) = "!" THEN [err |-> "", name |-> Tail(name), value |-> value]
  ELSE IF name \notin DOMAIN rev_lookups
  THEN [err |-> "KeyError", name |-> name, value |-> value]
  ELSE IF rev_lookups[name] \in date_hdrs
  THEN [err |-> "", name |-> rev_lookups[name],
        value |-> DecodedDate(PyInt16(value), value)]
  ELSE [err |-> "", name |-> rev_lookups[name], value |-> value]

\* decompress: the loop over the references
RECURSIVE Deref(_, _, _)
Deref(refs, last_d, out) ==
  IF refs = <<>> THEN Ok(out)
  ELSE IF Head(refs) = <<>> THEN Raise("IndexError")
  ELSE IF Head(Head(refs)) = "!"
  THEN (IF Tail(Head(refs)) \notin DOMAIN last_d THEN Raise("KeyError")
        ELSE Deref(Tail(refs), last_d,
                   Put(out, Tail(Head(refs)), last_d[Tail(Head(refs))])))
  ELSE IF Head(refs) \notin DOMAIN rev_lookups THEN Raise("KeyError")
  ELSE IF rev_lookups[Head(refs)] \notin DOMAIN last_d THEN Raise("KeyError")
  ELSE Deref(Tail(refs), last_d,
             Put(out, rev_lookups[Head(refs)], last_d[rev_lookups[Head(refs)]]))

\* a faulty receiving side, which keeps of a message only the metadata
DecompressedForgetful(proc, out) ==
  IF out.err # "" THEN [err |-> out.err, val |-> EmptyDict, proc |-> proc]
  ELSE [err |-> "", val |-> out.val,
        proc |-> [proc EXCEPT !.last_d_set = TRUE,
                              !.last_d = [n \in {n \in DOMAIN out.val : Head(n) = ":"}
                                            |-> out.val[n]]]]

\* decompress: the value returned (or the exception raised), and the
\* Processor as the call leaves it
Decompressed(proc, out) ==
  IF out.err # "" THEN [err |-> out.err, val |-> EmptyDict, proc |-> proc]
  ELSE [err |-> "", val |-> out.val,
        proc |-> [proc EXCEPT !.last_d_set = TRUE, !.last_d = out.val]]

\* decompress: out_headers after the first loop, exp being what each parsed
\* line stands for
OutHeaders(exp) ==
  IF \E n \in DOMAIN exp : exp[n].err # ""
  THEN Raise((CHOOSE n \in DOMAIN exp : exp[n].err # "").err)
  ELSE Ok([k \in {exp[n].name : n \in DOMAIN exp} |->
             exp[CHOOSE n \in DOMAIN exp : exp[n].name = k].value])

\* decompress: the second loop, when there is a 'ref' header and last_d is
\* neither None nor empty
Dereferenced(proc, headers, out) ==
  IF out.err # "" THEN out
  ELSE IF K_ref \in DOMAIN headers /\ proc.last_d_set /\ proc.last_d # EmptyDict
  THEN Deref(Split(headers[K_ref], ","), proc.last_d, out.val)
  ELSE out

DecompressParsed(proc, parsed) ==
  IF parsed.err # "" THEN Decompressed(proc, parsed)
  ELSE Decompressed(proc,
         Dereferenced(proc, parsed.val,
           OutHeaders([n \in DOMAIN parsed.val \ {K_ref} |->
                         Expanded(n, parsed.val[n])])))

\* Processor.decompress(compressed)
decompress(proc, compressed) == DecompressParsed(proc, parse_http1(compressed))

----------------------------------------------------------------------------
(* compare_compressors.py: CompressionTester.compare_headers               *)

\* the cookie header with its crumbs sorted, as compare_headers rewrites it
SortedCrumbs(splitvals) ==
  Join(Sorted([i \in 1..Len(splitvals) |-> LStripSP(splitvals[i])]), <<";", SP>>)

NormCookie(d) ==
  IF K_cookie \in DOMAIN d
  THEN [d EXCEPT ![K_cookie] = SortedCrumbs(Split(d[K_cookie], ";"))]
  ELSE d

\* compare_headers: the loops over a_hdr and b_hdr, once the cookies are sorted
Differences(a, b) ==
  IF K_version \in DOMAIN a /\ K_version \notin DOMAIN b
  THEN [err |-> "KeyError", output |-> {}, a_hdr |-> a]
  ELSE [err |-> "", a_hdr |-> a,
        output |->
          {[what |-> "only in A", key |-> k] :
              k \in {k \in DOMAIN a : k # K_version /\ k \notin DOMAIN b}}
          \cup
          {[what |-> "mismatched values", key |-> k] :
              k \in {k \in DOMAIN a : /\ k # K_version
                                      /\ k \in DOMAIN b
                                      /\ Strip(a[k]) # Strip(b[k])}}
          \cup
          {[what |-> "only in B", key |-> k] : k \in DOMAIN b \ DOMAIN a}]

\* compare_headers(a_hdr, b_hdr): the differences found, and a_hdr as the
\* call leaves it (its cookie header rewritten in place)
compare_headers(a_hdr, b_hdr) == Differences(NormCookie(a_hdr), NormCookie(b_hdr))

----------------------------------------------------------------------------
(* compare_compressors.py: Connection                                      *)

BS == "\\"

\* fnmatch.translate(pat) matched with re.match: the whole of t, "*" standing
\* for any characters and "?" for one
RECURSIVE GlobMatch(_, _)
GlobMatch(pat, t) ==
  IF pat = <<>> THEN t = <<>>
  ELSE IF Head(pat) = "*"
  THEN \E k \in 0..Len(t) : GlobMatch(Tail(pat), SubSeq(t, k + 1, Len(t)))
  ELSE IF Head(pat) = "?"
  THEN t # <<>> /\ Len(Head(t)) = 1 /\ GlobMatch(Tail(pat), Tail(t))
  ELSE t # <<>> /\ Head(t) = Head(pat) /\ GlobMatch(Tail(pat), Tail(t))

\* re.compile(pat).match(t) for a pattern of literals, escaped characters and
\* ".": a prefix of t matches
RECURSIVE RegexMatch(_, _)
RegexMatch(pat, t) ==
  IF pat = <<>> THEN TRUE
  ELSE IF Head(pat) = BS /\ Len(pat) >= 2
  THEN t # <<>> /\ Head(t) = pat[2] /\ RegexMatch(SubSeq(pat, 3, Len(pat)), Tail(t))
  ELSE IF Head(pat) = "."
  THEN t # <<>> /\ Len(Head(t)) = 1 /\ RegexMatch(Tail(pat), Tail(t))
  ELSE t # <<>> /\ Head(t) = Head(pat) /\ RegexMatch(Tail(pat), Tail(t))

\* a compiled pattern object, and x.match(host)
Pattern(kind, src) == [type |-> "pattern", kind |-> kind, src |-> src]

PatternMatch(x, host) ==
  IF x.kind = "fnmatch" THEN GlobMatch(x.src, host) ELSE RegexMatch(x.src, host)

\* the last token of the run of tokens other than "." that starts at i
\* (i - 1 when there is none)
LabelEnd(s, i) ==
  IF i > Len(s) \/ s[i] = "." THEN i - 1
  ELSE CHOOSE e \in i..Len(s) :
         /\ \A j \in i..e : s[j] # "."
         /\ (e = Len(s) \/ s[e + 1] = ".")

\* [^.]+\.[^.]+ matches at i
TwoLabelsAt(s, i) ==
  LET e1 == LabelEnd(s, i)
  IN  e1 >= i /\ e1 + 1 <= Len(s) /\ LabelEnd(s, e1 + 2) >= e1 + 2

\* re.match('(.*\.)?([^.]+\.[^.]+)\.?', s): whether it matches, and group(2).
\* The greedy optional group takes the longest prefix ending in "." that
\* leaves two labels.
TldMatch(s) ==
  LET starts == {0} \cup {j \in 1..Len(s) : s[j] = "."}
      good   == {j \in starts : TwoLabelsAt(s, j + 1)}
      j      == CHOOSE j \in good : \A k \in good : k <= j
  IN  IF good = {} THEN [found |-> FALSE, group2 |-> <<>>]
      ELSE [found |-> TRUE,
            group2 |-> SubSeq(s, j + 1, LabelEnd(s, LabelEnd(s, j + 1) + 2))]

\* re.search('\\\.', s): a backslash followed by a character
HasEscape(s) == \E i \in 1..(Len(s) - 1) : s[i] = BS

\* re.sub('\\\.', '.', s)
RECURSIVE Unescape(_)
Unescape(s) ==
  IF s = <<>> THEN <<>>
  ELSE IF Head(s) = BS /\ Len(s) >= 2 THEN <<".">> \o Unescape(SubSeq(s, 3, Len(s)))
  ELSE <<Head(s)>> \o Unescape(Tail(s))

\* Connection.__init__: the pattern compiled for the alternative s, if any
Compiled(s, glob) ==
  IF StartsWith(s, <<"*">>) THEN <<Pattern("fnmatch", s)>>
  ELSE IF HasEscape(s) THEN <<Pattern("regex", s)>>
  ELSE IF glob THEN <<Pattern("fnmatch", <<"*">> \o s)>>
  ELSE <<>>

\* Connection.__init__: the string in which the top-level domain is looked for
TldSource(s) ==
  IF StartsWith(s, <<"*">>) THEN Tail(s)
  ELSE IF HasEscape(s) THEN Unescape(s)
  ELSE s

\* Connection.__init__: if m: self.tlds.append(m.group(2))
WithTld(tlds, m) == IF m.found THEN Append(tlds, m.group2) ELSE tlds

\* Connection.__init__: the loop over the alternatives of the name
RECURSIVE Alternatives(_, _, _, _)
Alternatives(alts, glob, patterns, tlds) ==
  IF alts = <<>> THEN [patterns |-> patterns, tlds |-> tlds]
  ELSE Alternatives(Tail(alts), glob, patterns \o Compiled(Head(alts), glob),
                    IF StartsWith(Head(alts), <<"*">>) \/ HasEscape(Head(alts)) \/ glob
                    THEN WithTld(tlds, TldMatch(TldSource(Head(alts))))
                    ELSE tlds)

Connected(name, compressors, glob, a) ==
  [name |-> name, compressors |-> compressors, glob |-> glob,
   patterns |-> a.patterns, tlds |-> a.tlds]

Connection(name, compressors, glob) ==
  Connected(name, compressors, glob, Alternatives(Split(name, "/"), glob, <<>>, <<>>))

\* Python objects that are compared with ==
PyBool(b) == [type |-> "bool", val |-> b]

\* x in seq
PyIn(x, seq) == \E i \in 1..Len(seq) : seq[i] = x

\* itertools.ifilter(lambda x: x.match(host), self.patterns): the patterns
\* that match host
ifilter(host, patterns) == SelectSeq(patterns, LAMBDA x : PatternMatch(x, host))

\* itertools.imap(host.endswith, self.tlds): a boolean per suffix
imap(host, tlds) == [i \in 1..Len(tlds) |-> PyBool(EndsWith(host, tlds[i]))]

\* Connection.matches(host)
matches(c, host) ==
  IF PyIn(PyBool(TRUE), ifilter(host, c.patterns)) THEN TRUE
  ELSE IF PyIn(PyBool(TRUE), imap(host, c.tlds)) THEN TRUE
  ELSE c.name = host

----------------------------------------------------------------------------
(* compressor/http1: the baseline codec, which sends the headers as HTTP/1 *)

Http1Sent(out, heap1, proc) ==
  [err |-> out.err, wire |-> out.val, heap |-> heap1, proc |-> proc]

Http1Stripped(proc, heap1, obj) ==
  Http1Sent(format_http1(heap1[obj], <<CR, LF>>, <<":", SP>>, <<"host">>), heap1, proc)

http1_compress(proc, heap, obj, host) ==
  Http1Stripped(proc, [heap EXCEPT ![obj] = strip_conn_headers(heap[obj])], obj)

Http1Parsed(proc, parsed) ==
  [err |-> parsed.err, val |-> parsed.val, proc |-> proc]

http1_decompress(proc, compressed) == Http1Parsed(proc, parse_http1(compressed))

----------------------------------------------------------------------------
(* compare_compressors.py: CompressionTester                               *)

VARIABLES
  options,      \* the command line: glob, multiplex, codec, baseline, tsv
  codec_order,  \* the order in which a dict keyed by codec name is iterated
  messages,     \* run: the (message_type, message, host) items, in input order
  heap,         \* the header dicts, by reference: message i is heap[i]
  connections,  \* self.connections, in the order in which the dict is iterated
  registered,   \* the names of the connections in the order of registration
  procs,        \* every Processor instance constructed, by identity
  pc,           \* "process", "done", "crashed"; SpecCodec: "codec"
  done,         \* the number of messages processed
  log,          \* per message processed: its connection and its results
  calls,        \* per Processor: the messages passed to its compress, in order
  trace,        \* SpecCodec: the calls made on the one Processor, in order
  warned,       \* self.warned: the codec names that need no warning any more
  stderr,       \* what was written to sys.stderr, in order
  ttls,         \* process_messages: the totals per message type and codec
  tsv_out,      \* self.tsv_out: the lines accumulated per message type
  files         \* output_tsv: the content of the file written per message type

vars == <<options, codec_order, messages, heap, connections, registered, procs,
          pc, done, log, calls, trace, warned, stderr, ttls, tsv_out, files>>

\* the fields of the CompressionTester that only a run of the harness touches
report == <<warned, stderr, ttls, tsv_out, files>>

msg_types == <<"req", "res">>

\* a faulty msg_types.index: every message is taken for a request
TypeIndexOfRequest(message_type) == CHOOSE i \in 1..2 : msg_types[i] = "req"

\* msg_types.index(message_type), counted from 1
TypeIndex(message_type) == CHOOSE i \in 1..2 : msg_types[i] = message_type

\* a faulty get_compressors: the Processors constructed first are handed out
\* again to every connection
get_compressors_shared(base) ==
  [name \in Range(codec_order) |->
     <<2 * (CHOOSE k \in 1..Len(codec_order) : codec_order[k] = name) - 1,
       2 * (CHOOSE k \in 1..Len(codec_order) : codec_order[k] = name)>>]

\* get_compressors: a fresh pair of Processors per codec, the request one
\* first; base is the number of Processors constructed before
get_compressors(base) ==
  [name \in Range(codec_order) |->
     LET k == CHOOSE k \in 1..Len(codec_order) : codec_order[k] = name
     IN  <<base + 2 * k - 1, base + 2 * k>>]

\* get_compressors: the exception that leaves it, if any
Constructing(codecs) ==
  IF \E k \in 1..Len(codecs) : ProcessorInit(codecs[k]) # "" THEN "AssertionError"
  ELSE ""

\* the Processors that get_compressors constructs, in the order of their identities
FreshProcessors ==
  [i \in 1..(2 * Len(codec_order)) |->
     NewProcessor(codec_order[(i + 1) \div 2], i % 2 = 1)]

\* get_connection: the first of the connections, in the order of iteration,
\* that matches; M is the set of the positions of those that match
FirstMatch(M) == IF M = {} THEN 0 ELSE CHOOSE i \in M : \A j \in M : i <= j

\* get_connection(host), up to the construction of a new connection: the
\* position of the connection returned, 0 when none is registered for host
get_connection(conns, host) ==
  IF \E i \in 1..Len(conns) : conns[i].name = host
  THEN CHOOSE i \in 1..Len(conns) : conns[i].name = host
  ELSE FirstMatch({i \in 1..Len(conns) : matches(conns[i], host)})

\* s with x inserted so that it becomes element number pos
InsertAt(s, pos, x) == SubSeq(s, 1, pos - 1) \o <<x>> \o SubSeq(s, pos, Len(s))

\* BaseProcessor.decompress, which a codec module inherits when its Processor
\* defines none
BaseProcessor_decompress(proc, compressed) ==
  [err |-> "NotImplementedError", val |-> EmptyDict, proc |-> proc]

\* codec modules whose Processor defines compress only; what they send is
\* taken to be what http1 sends
NoDecompress == {"http1_gzip", "write_only"}

\* CompressionTester.__init__: self.warned
InitWarned == {"http1_gzip"}

\* processor.compress / processor.decompress of the codec module of proc
codec_compress(proc, hp, obj, host) ==
  IF proc.codec = "simple" THEN compress(proc, hp, obj, host)
  ELSE http1_compress(proc, hp, obj, host)

codec_decompress(proc, compressed) ==
  IF proc.codec = "simple" THEN decompress(proc, compressed)
  ELSE IF proc.codec \in NoDecompress THEN BaseProcessor_decompress(proc, compressed)
  ELSE http1_decompress(proc, compressed)

\* the float 1.0 * num / den, kept as the fraction; den = 0 in NoRatio, which
\* stands for a result without the key 'ratio', and in Huge, which stands
\* for 1e20, greater than every ratio of two sizes
Ratio(num, den) == [num |-> num, den |-> den]
NoRatio == Ratio(0, 0)
Huge == Ratio(1, 0)
RatioLeq(a, b) == a.num * b.den <= b.num * a.den
RatioMax(a, b) == IF RatioLeq(a, b) THEN b ELSE a
RatioMin(a, b) == IF RatioLeq(a, b) THEN a ELSE b

\* process_message: results[name], and with it the message as compress left
\* it, which is what the Processor's last_c then refers to
Result(c, d, checked, differences, in_headers) ==
  [compressed |-> c.wire, size |-> PyLen(c.wire), ratio |-> NoRatio,
   in_headers |-> in_headers,
   unsupported |-> d.err = "NotImplementedError",
   checked |-> checked, decompressed |-> d.val, differences |-> differences]

\* a faulty comparison, which raises when the headers differ
CompareFatal(st, name, id, obj, index, c, d, cmp) ==
  [st EXCEPT !.err = IF cmp.output # {} THEN "CompressionError" ELSE cmp.err,
             !.heap = [c.heap EXCEPT ![obj] = cmp.a_hdr],
             !.calls = [@ EXCEPT ![id] = Append(@, index)],
             !.procs = [@ EXCEPT ![id] = d.proc]]

\* process_message: the body of the loop over procs for one processor, from
\* the call of compare_headers on; cmp is what the call returns.
\* st carries the heap, the Processors, the results and the call log.
Compare(st, name, id, obj, index, c, d, cmp) ==
  [st EXCEPT !.err = cmp.err,
             !.stderr = IF cmp.err = "" /\ cmp.output # {}
                        THEN Append(@, [line |-> "COMPRESSION ERROR", name |-> name])
                        ELSE @,
             !.heap = [c.heap EXCEPT ![obj] = cmp.a_hdr],
             !.calls = [@ EXCEPT ![id] = Append(@, index)],
             !.procs = [@ EXCEPT ![id] = d.proc],
             !.results = Put(@, name, Result(c, d, TRUE,
                                             IF cmp.err = "" THEN cmp.output ELSE {},
                                             c.heap[obj]))]

\* a faulty except clause, which warns at every NotImplementedError
WarnAlways(st, name, d) ==
  IF d.err = "NotImplementedError"
  THEN [st EXCEPT !.stderr = Append(@, [line |-> "WARNING", name |-> name]),
                  !.warned = @ \cup {name}]
  ELSE st

\* process_message: except NotImplementedError, which warns once per name
Warn(st, name, d) ==
  IF d.err = "NotImplementedError" /\ name \notin st.warned
  THEN [st EXCEPT !.stderr = Append(@, [line |-> "WARNING", name |-> name]),
                  !.warned = @ \cup {name}]
  ELSE st

\* the same from the call of decompress on; d is what the call returns
Decompress(st, name, id, obj, index, c, d) ==
  IF d.err \notin {"", "NotImplementedError"}
  THEN [st EXCEPT !.err = d.err, !.heap = c.heap,
                  !.calls = [@ EXCEPT ![id] = Append(@, index)],
                  !.procs = [@ EXCEPT ![id] = d.proc]]
  ELSE IF d.err = "" /\ d.val # EmptyDict
  THEN Compare(st, name, id, obj, index, c, d, compare_headers(c.heap[obj], d.val))
  ELSE [Warn(st, name, d) EXCEPT
                  !.heap = c.heap,
                  !.calls = [@ EXCEPT ![id] = Append(@, index)],
                  !.procs = [@ EXCEPT ![id] = d.proc],
                  !.results = Put(@, name, Result(c, d, FALSE, {}, c.heap[obj]))]

\* the same from the call of compress on; c is what the call returns
Compress(st, name, id, obj, index, c) ==
  IF c.err # ""
  THEN [st EXCEPT !.err = c.err, !.heap = c.heap,
                  !.calls = [@ EXCEPT ![id] = Append(@, index)],
                  !.procs = [@ EXCEPT ![id] = c.proc]]
  ELSE Decompress(st, name, id, obj, index, c, codec_decompress(c.proc, c.wire))

OneProc(st, name, id, obj, host, index) ==
  Compress(st, name, id, obj, index, codec_compress(st.procs[id], st.heap, obj, host))

\* process_message: the loop over procs, which stops at an exception
RECURSIVE Procs(_, _, _, _, _, _)
Procs(st, names, compressors, message, host, index) ==
  IF names = <<>> \/ st.err # "" THEN st
  ELSE Procs(OneProc(st, Head(names),
                     compressors[Head(names)][TypeIndex(message.type)],
                     message.obj, host, index),
             Tail(names), compressors, message, host, index)

\* process_message(message, message_type, host) on connection conn, up to
\* the end of the loop over procs
process_message(conn, message, index, hp, ps, cs) ==
  Procs([err |-> "", heap |-> hp, procs |-> ps, calls |-> cs, results |-> EmptyDict,
         warned |-> warned, stderr |-> stderr],
        codec_order, conn.compressors, message, message.host, index)

\* a faulty ratio, which takes the size of the message itself for the
\* baseline size
WithRatiosOfSelf(results, baseline) ==
  [name \in DOMAIN results |->
     [results[name] EXCEPT !.ratio = Ratio(results[name].size, results[name].size)]]

\* process_message: result['ratio'] = 1.0 * result['size'] / baseline_size
WithRatios(results, baseline) ==
  IF baseline \in DOMAIN results
  THEN IF results[baseline].size > 0
       THEN [name \in DOMAIN results |->
               [results[name] EXCEPT
                  !.ratio = Ratio(results[name].size, results[baseline].size)]]
       ELSE results
  ELSE results

\* the codec names modelled, as list.sort() orders them
CodecNames == <<"http1", "http1_gzip", "simple", "write_only">>
SortedNames(S) == SelectSeq(CodecNames, LAMBDA name : name \in S)

\* tsv_results: a line of self.tsv_out is kept as its fields, which the tabs
\* separate: the first, the one per codec, the last
TsvHeader(codecs) ==
  [first |-> <<"num">>, cols |-> codecs, last |-> <<"connection">>]

TsvRow(codecs, results, connection) ==
  [first |-> <<"%i">>, cols |-> [k \in 1..Len(codecs) |-> results[codecs[k]].size],
   last |-> connection.name]

TsvAppended(out, codecs, results, message_type, connection) ==
  [out EXCEPT ![message_type] =
     (IF Len(@) = 0 THEN <<TsvHeader(codecs)>> ELSE @)
     \o <<TsvRow(codecs, results, connection)>>]

\* tsv_results(results, connection), results["_message_type"] being message_type
tsv_results(out, results, message_type, connection) ==
  TsvAppended(out, SortedNames(DOMAIN results), results, message_type, connection)

\* output_tsv: line % count writes count in the place of "%i"
Formatted(line, count) ==
  [line EXCEPT !.first = IF @ = <<"%i">> THEN <<count>> ELSE @]

\* output_tsv: what is written to the file of one message type
Written(lines) ==
  [k \in 1..Len(lines) |-> IF k - 1 = 0 THEN lines[k] ELSE Formatted(lines[k], k - 1)]

\* output_tsv: one file per key of self.tsv_out
output_tsv(out) ==
  [message_type \in {t \in DOMAIN out : Len(out[t]) > 0} |-> Written(out[message_type])]

\* process_messages: the value that the defaultdict makes for a new codec name
NewTarget ==
  [size |-> 0, maxr |-> Ratio(0, 1), minr |-> Huge, ratio_list |-> <<>>,
   ratio |-> NoRatio, std |-> Raise("KeyError")]

\* process_messages: the totals of one codec with one more result
Added(target, result) ==
  [target EXCEPT !.size = @ + result.size,
                 !.maxr = RatioMax(@, result.ratio),
                 !.minr = RatioMin(@, result.ratio),
                 !.ratio_list = Append(@, result.ratio)]

\* process_messages: the totals of one message type after one more message;
\* a result without the key 'ratio' raises KeyError
Accumulated(totals, results, nmessages) ==
  IF \E name \in DOMAIN results : results[name].ratio = NoRatio
  THEN Raise("KeyError")
  ELSE Ok([num |-> nmessages,
           by |-> [name \in DOMAIN totals.by \cup DOMAIN results |->
                     IF name \notin DOMAIN results THEN totals.by[name]
                     ELSE Added(IF name \in DOMAIN totals.by THEN totals.by[name]
                                ELSE NewTarget,
                                results[name])]])

\* meanstdv(members): the mean and the deviation are kept as what they are
\* computed from; both divisions raise when the divisor is zero
meanstdv(members) ==
  IF Len(members) = 0 \/ Len(members) - 1 = 0 THEN Raise("ZeroDivisionError")
  ELSE Ok([members |-> members, divisor |-> Len(members) - 1])

\* process_messages: the second loop, for one message type; looking up the
\* baseline makes a target for it when there is none
BaselineTarget(by, baseline) ==
  IF baseline \in DOMAIN by THEN by ELSE Put(by, baseline, NewTarget)

Rated(by, baseline_ratio) ==
  IF baseline_ratio = 0 \/ \E name \in DOMAIN by : meanstdv(by[name].ratio_list).err # ""
  THEN Raise("ZeroDivisionError")
  ELSE Ok([name \in DOMAIN by |->
             [by[name] EXCEPT !.ratio = Ratio(by[name].size, baseline_ratio),
                              !.std = meanstdv(by[name].ratio_list)]])

RatedAgainst(by, baseline) == Rated(by, by[baseline].size)

AggregatedType(totals, baseline) == RatedAgainst(BaselineTarget(totals.by, baseline), baseline)

\* process_messages: the second loop and the value returned
Aggregated(t, baseline) ==
  IF \E message_type \in DOMAIN t : AggregatedType(t[message_type], baseline).err # ""
  THEN Raise("ZeroDivisionError")
  ELSE Ok([message_type \in DOMAIN t |->
             [t[message_type] EXCEPT !.by = AggregatedType(t[message_type], baseline).val]])

\* print_results(results, message_type, True): the first line written,
\* "%i %s messages processed", kept as its two fields
MessagesProcessed(results, message_type) ==
  [count |-> results.num, message_type |-> message_type]

----------------------------------------------------------------------------
(* The inputs drawn: hosts, header dicts, command lines.                   *)

H_a   == <<"a", ".", "example", ".", "com">>
H_w   == <<"w", ".", "example", ".", "com">>
H_org == <<"example", ".", "org">>
H_bad == <<"bad", "example", ".", "com">>
H_net == <<"other", ".", "net">>
H_xbad == <<"x", ".", "bad", "example", ".", "com">>

Hosts == {H_a, H_w, H_org, H_bad, H_net}

Request(scheme, host) ==
  (K_method :> <<"GET">>) @@ (K_path :> <<"/">>) @@ (K_version :> <<"HTTP/1.1">>) @@
  (K_scheme :> <<scheme>>) @@ (K_host :> host)

\* a request over http with a cookie whose crumbs are not in sorted order
Req1(host) ==
  Request("http", host) @@ (<<"user-agent">> :> <<"ua1">>) @@
  (K_cookie :> <<"b=2", ";", SP, "a=1">>)

\* a request over https with a repeated header and hop-by-hop headers
Req2(host) ==
  Request("https", host) @@ (<<"user-agent">> :> <<"ua1">>) @@
  (<<"x-foo">> :> <<"v1", NUL, "v2">>) @@
  (K_connection :> <<"keep-alive">>) @@ (<<"keep-alive">> :> <<"300">>)

\* a request over http with a cookie in sorted order and a header not in lookups
Req3(host) ==
  Request("http", host) @@ (K_cookie :> <<"a=1", ";", SP, "b=2">>) @@
  (<<"x-foo">> :> <<"v1">>)

\* a request whose Connection header lists two header names, with a comma
Req4(host) ==
  Request("http", host) @@ (<<"x-foo">> :> <<"v1">>) @@
  (K_connection :> <<"x-foo", ",", SP, "keep-alive">>) @@ (<<"keep-alive">> :> <<"300">>)

Response(status, text) ==
  (K_version :> <<"HTTP/1.1">>) @@ (K_status :> <<status>>) @@ (K_status_text :> text)

\* a response with an RFC 1123 date
Res1 ==
  Response("200", <<"OK">>) @@ (<<"server">> :> <<"srv">>) @@
  (<<"date">> :> <<"Thu, 01 Jan 1970 00:00:00 GMT">>)

\* a response with an RFC 850 date and an Expires that is no date
Res2 ==
  Response("304", <<"Not", SP, "Modified">>) @@ (<<"server">> :> <<"srv">>) @@
  (<<"date">> :> <<"Thursday, 01-Jan-70 00:00:00 GMT">>) @@
  (<<"expires">> :> <<"0">>)

\* a response without date headers
Res3 ==
  Response("200", <<"OK">>) @@ (<<"server">> :> <<"srv">>) @@
  (<<"content-type">> :> <<"text/html">>)

\* a response with the three date headers, two with years of two digits
Res4 ==
  Response("200", <<"OK">>) @@
  (<<"date">> :> <<"Thursday, 01-Jan-37 00:00:00 GMT">>) @@
  (<<"last-modified">> :> <<"Wednesday, 01-Jan-69 00:00:00 GMT">>) @@
  (<<"expires">> :> <<"Thu Jan  1 00:00:00 1970">>)

\* the request/response pairs of a capture file
Pairs ==
  { [req |-> Req1(H_a),   res |-> Res1, host |-> H_a],
    [req |-> Req2(H_w),   res |-> Res2, host |-> H_w],
    [req |-> Req3(H_org), res |-> Res3, host |-> H_org],
    [req |-> Req1(H_bad), res |-> Res3, host |-> H_bad],
    [req |-> Req3(H_net), res |-> Res1, host |-> H_net] }

\* the -m options of a command line
Multiplexes ==
  { <<>>,
    << <<"*">> >>,
    << <<"*", ".", "example", ".", "com">>, H_org >>,
    << H_a, <<"b", ".", "example", ".", "com">> >>,
    << <<"example", BS, ".", "org", "/", "*", ".", "example", ".", "com">> >> }

\* the header dicts handed to the one Processor of SpecCodec
CodecMessages == {Req1(H_a), Req2(H_a), Req3(H_a), Req4(H_a), Res1, Res2, Res3, Res4}

\* compressed input that no compress call produced
CraftedWires ==
  { <<"HTTP/1.1", SP, "200", SP, "OK", LF, "ref", ":", "s", LF, LF>>,
    <<"HTTP/1.1", SP, "200", SP, "OK", LF, "ref", ":", "!", "x-foo", LF, LF>> }

\* the number of decompress calls of SpecCodec on such input
MaxCrafted == 1

\* the permutations of a sequence of at most two elements, and in general
\* the orders in which a dict with these keys can be iterated
RECURSIVE Orders(_)
Orders(s) ==
  IF s = <<>> THEN {<<>>}
  ELSE UNION { {InsertAt(o, pos, Head(s)) : pos \in 1..(Len(o) + 1)} : o \in Orders(Tail(s)) }

----------------------------------------------------------------------------
(* The harness: CompressionTester.__init__ and run                         *)

\* init_connections: one Connection per -m option, each with fresh Processors
init_connections(multiplex, glob, ncodecs) ==
  [k \in 1..Len(multiplex) |->
     Connection(multiplex[k], get_compressors((k - 1) * 2 * ncodecs), glob)]

RECURSIVE Repeat(_, _)
Repeat(s, n) == IF n = 0 THEN <<>> ELSE s \o Repeat(s, n - 1)

\* process_messages: ttls before the first message, and self.tsv_out, a
\* defaultdict(list), as __init__ leaves it
NewTotals == [message_type \in Range(msg_types) |-> [num |-> 0, by |-> EmptyDict]]
NewTsvOut == [message_type \in Range(msg_types) |-> <<>>]

\* CompressionTester.__init__ and the reading of the capture files by run
Constructed(pairs, most) ==
  /\ codec_order \in Orders(options.codec)
  /\ \E n \in 1..most : \E input \in [1..n -> pairs] :
       /\ messages = [i \in 1..(2 * n) |->
            [type |-> msg_types[2 - (i % 2)], obj |-> i, host |-> input[(i + 1) \div 2].host]]
       /\ heap = [i \in 1..(2 * n) |->
            IF i % 2 = 1 THEN input[(i + 1) \div 2].req ELSE input[(i + 1) \div 2].res]
  /\ registered = options.multiplex
  /\ connections \in
       Orders(init_connections(options.multiplex, options.glob, Len(codec_order)))
  /\ procs = Repeat(FreshProcessors, Len(options.multiplex))
  /\ pc = IF Len(options.multiplex) > 0 /\ Constructing(codec_order) # ""
          THEN "crashed" ELSE "process"
  /\ done = 0
  /\ log = <<>>
  /\ calls = [i \in 1..Len(procs) |-> <<>>]
  /\ trace = <<>>
  /\ warned = InitWarned
  /\ stderr = <<>>
  /\ ttls = NewTotals
  /\ tsv_out = NewTsvOut
  /\ files = EmptyDict

\* command lines with the codecs of src/ and the default baseline, without -t
Init ==
  /\ options \in [glob : BOOLEAN, multiplex : Multiplexes,
                   codec : {<<"http1", "simple">>}, baseline : {"http1"}, tsv : {FALSE}]
  /\ Constructed(Pairs, MaxPairs)

\* process_messages: the end of one turn of the loop; st is what the loop of
\* process_message leaves, results its results with their ratios, acc the
\* totals of the message type with these results
Totalled(st, results, message, conn, created, acc) ==
  /\ heap' = st.heap
  /\ procs' = st.procs
  /\ calls' = st.calls
  /\ warned' = st.warned
  /\ stderr' = st.stderr
  /\ tsv_out' = IF options.tsv THEN tsv_results(tsv_out, results, message.type, conn)
                ELSE tsv_out
  /\ pc' = IF acc.err # "" THEN "crashed" ELSE "process"
  /\ done' = IF acc.err # "" THEN done ELSE done + 1
  /\ log' = IF acc.err # "" THEN log
            ELSE Append(log, [type |-> message.type, host |-> message.host,
                              conn |-> conn.name, created |-> created,
                              results |-> results])
  /\ ttls' = IF acc.err # "" THEN ttls ELSE [ttls EXCEPT ![message.type] = acc.val]
  /\ files' = files

Measured(st, results, message, conn, created) ==
  Totalled(st, results, message, conn, created,
           Accumulated(ttls[message.type], results, Len(messages)))

\* an exception leaves process_message
Crashed(st) ==
  /\ heap' = st.heap
  /\ procs' = st.procs
  /\ calls' = st.calls
  /\ warned' = st.warned
  /\ stderr' = st.stderr
  /\ pc' = "crashed"
  /\ UNCHANGED <<done, log, ttls, tsv_out, files>>

Turn(st, message, conn, created) ==
  IF st.err # "" THEN Crashed(st)
  ELSE Measured(st, WithRatios(st.results, options.baseline), message, conn, created)

\* process_messages: one turn of the loop on connection conn, ps and cs being
\* the Processors constructed so far and their call logs
Step(conn, created, ps, cs) ==
  Turn(process_message(conn, messages[done + 1], done + 1, heap, ps, cs),
       messages[done + 1], conn, created)

\* get_connection finds a connection for the host of the next message
ProcessOnConnection ==
  /\ pc = "process"
  /\ done < Len(messages)
  /\ \E i \in 1..Len(connections) :
       /\ i = get_connection(connections, messages[done + 1].host)
       /\ Step(connections[i], FALSE, procs, calls)
  /\ UNCHANGED <<connections, registered>>
  /\ UNCHANGED <<options, codec_order, messages, trace>>

\* get_connection: self.connections[host] = conn; the new key takes some
\* place in the order of iteration
Register(conn) ==
  /\ \E pos \in 1..(Len(connections) + 1) :
       connections' = InsertAt(connections, pos, conn)
  /\ registered' = Append(registered, conn.name)
  /\ Step(conn, TRUE, procs \o FreshProcessors,
          calls \o [i \in 1..Len(FreshProcessors) |-> <<>>])

\* get_connection constructs and registers a connection for the host of the
\* next message
ProcessOnNewConnection ==
  /\ pc = "process"
  /\ done < Len(messages)
  /\ get_connection(connections, messages[done + 1].host) = 0
  /\ IF Constructing(codec_order) # ""
     THEN /\ pc' = "crashed"
          /\ UNCHANGED <<heap, connections, registered, procs, done, log, calls>>
          /\ UNCHANGED report
     ELSE Register(Connection(messages[done + 1].host, get_compressors(Len(procs)),
                              options.glob))
  /\ UNCHANGED <<options, codec_order, messages, trace>>

\* process_messages returns t (or raises), and run writes the TSV files
Returned(t) ==
  /\ pc' = IF t.err # "" THEN "crashed" ELSE "done"
  /\ ttls' = IF t.err # "" THEN ttls ELSE t.val
  /\ files' = IF t.err = "" /\ options.tsv THEN output_tsv(tsv_out) ELSE files

\* the loop of process_messages ends
Finish ==
  /\ pc = "process"
  /\ done = Len(messages)
  /\ Returned(Aggregated(ttls, options.baseline))
  /\ UNCHANGED <<options, codec_order, messages, heap, connections, registered,
                 procs, done, log, calls, trace, warned, stderr, tsv_out>>

Next == ProcessOnConnection \/ ProcessOnNewConnection \/ Finish

Spec == Init /\ [][Next]_vars

\* command lines with -t or without, with a codec that has no decompress and
\* with either codec as the baseline
ReportCommandLines ==
  [glob : {TRUE}, multiplex : {<<>>, << <<"*">> >>},
   codec : {<<"http1", "simple", "write_only">>, <<"http1", "http1_gzip">>},
   baseline : {"http1", "simple"}, tsv : BOOLEAN]

InitReport ==
  /\ options \in ReportCommandLines
  /\ Constructed(Pairs, MaxPairs)

SpecReport == InitReport /\ [][Next]_vars

\* runs long enough for a host to come back after a connection was made for
\* another host: one pair more, over hosts of which one ends with another
RoutingCommandLines ==
  [glob : BOOLEAN, multiplex : {<<>>, <<H_bad>>},
   codec : {<<"http1", "simple">>}, baseline : {"http1"}, tsv : {FALSE}]

RoutingPairs ==
  { [req |-> Req3(host), res |-> Res3, host |-> host] : host \in {H_bad, H_xbad, H_a, H_net} }

InitRouting ==
  /\ options \in RoutingCommandLines
  /\ Constructed(RoutingPairs, MaxPairs + 1)

SpecRouting == InitRouting /\ [][Next]_vars

----------------------------------------------------------------------------
(* One Processor of the delta codec, driven call by call: compress of a    *)
(* message, compress of the same dict again, decompress of what compress   *)
(* returned, decompress of other input, and the harness's comparison.      *)

\* one call, as the trace records it: the message as it is given, the wire,
\* the exception raised if any, the value returned, and last_d before the call
Call(op, crafted, obj, given, wire, err, val, differences) ==
  [op |-> op, crafted |-> crafted, obj |-> obj, given |-> given,
   wire |-> wire, err |-> err, val |-> val, differences |-> differences,
   last_d_set |-> procs[1].last_d_set, last_d |-> procs[1].last_d]

InitCodec ==
  /\ options = [glob |-> TRUE, multiplex |-> <<>>, codec |-> <<"simple">>,
                baseline |-> "http1", tsv |-> FALSE]
  /\ codec_order = <<"simple">>
  /\ messages = <<>>
  /\ heap = <<>>
  /\ connections = <<>>
  /\ registered = <<>>
  /\ \E is_request \in BOOLEAN : procs = <<NewProcessor("simple", is_request)>>
  /\ pc = IF ProcessorInit("simple") # "" THEN "crashed" ELSE "codec"
  /\ done = 0
  /\ log = <<>>
  /\ calls = << <<>> >>
  /\ trace = <<>>
  /\ warned = InitWarned
  /\ stderr = <<>>
  /\ ttls = NewTotals
  /\ tsv_out = NewTsvOut
  /\ files = EmptyDict

\* the number of calls of the trace with the given op, crafted or not
Count(op, crafted) ==
  Cardinality({i \in 1..Len(trace) : trace[i].op = op /\ trace[i].crafted = crafted})

\* processor.compress(message, host) returns (or raises) c
Compressing(obj, given, c) ==
  /\ heap' = c.heap
  /\ procs' = <<c.proc>>
  /\ trace' = Append(trace, Call("compress", FALSE, obj, given, c.wire, c.err,
                                 EmptyDict, {}))

\* compress of a message that is a dict of its own
CodecCompress ==
  /\ pc = "codec"
  /\ Count("compress", FALSE) < MaxCalls
  /\ \E m \in CodecMessages :
       /\ (K_method \in DOMAIN m) = procs[1].is_request
       /\ Compressing(Len(heap) + 1, m,
                      compress(procs[1], Append(heap, m), Len(heap) + 1, H_a))
  /\ UNCHANGED <<options, codec_order, messages, connections, registered, pc,
                 done, log, calls>>
  /\ UNCHANGED report

\* compress of the dict that was compressed last
CodecRecompress ==
  /\ pc = "codec"
  /\ Count("compress", FALSE) < MaxCalls
  /\ procs[1].last_c # NoObj
  /\ Compressing(procs[1].last_c, heap[procs[1].last_c],
                 compress(procs[1], heap, procs[1].last_c, H_a))
  /\ UNCHANGED <<options, codec_order, messages, connections, registered, pc,
                 done, log, calls>>
  /\ UNCHANGED report

\* processor.decompress(compressed) returns (or raises) d
Decompressing(wire, crafted, d) ==
  /\ procs' = <<d.proc>>
  /\ trace' = Append(trace, Call("decompress", crafted, NoObj, EmptyDict, wire,
                                 d.err, d.val, {}))

\* decompress of what the compress call just before returned
CodecDecompress ==
  /\ pc = "codec"
  /\ trace # <<>>
  /\ trace[Len(trace)].op = "compress"
  /\ trace[Len(trace)].err = ""
  /\ Decompressing(trace[Len(trace)].wire, FALSE,
                   decompress(procs[1], trace[Len(trace)].wire))
  /\ UNCHANGED <<options, codec_order, messages, heap, connections, registered,
                 pc, done, log, calls>>
  /\ UNCHANGED report

\* decompress of input that no compress call returned
CodecDecompressWire ==
  /\ pc = "codec"
  /\ Count("decompress", TRUE) < MaxCrafted
  /\ \E w \in CraftedWires : Decompressing(w, TRUE, decompress(procs[1], w))
  /\ UNCHANGED <<options, codec_order, messages, heap, connections, registered,
                 pc, done, log, calls>>
  /\ UNCHANGED report

\* compare_headers(message, decompressed) returns (or raises) cmp
Comparing(obj, decompressed, cmp) ==
  /\ heap' = [heap EXCEPT ![obj] = cmp.a_hdr]
  /\ trace' = Append(trace, Call("compare", FALSE, obj, heap[obj], <<>>, cmp.err,
                                 decompressed, cmp.output))

\* process_message: if decompressed: compare_headers(message, decompressed)
CodecCompare ==
  /\ pc = "codec"
  /\ Len(trace) >= 2
  /\ trace[Len(trace)].op = "decompress"
  /\ ~trace[Len(trace)].crafted
  /\ trace[Len(trace)].err = ""
  /\ trace[Len(trace)].val # EmptyDict
  /\ Comparing(trace[Len(trace) - 1].obj, trace[Len(trace)].val,
               compare_headers(heap[trace[Len(trace) - 1].obj], trace[Len(trace)].val))
  /\ UNCHANGED <<options, codec_order, messages, connections, registered, procs,
                 pc, done, log, calls>>
  /\ UNCHANGED report

NextCodec ==
  \/ CodecCompress
  \/ CodecRecompress
  \/ CodecDecompress
  \/ CodecDecompressWire
  \/ CodecCompare

SpecCodec == InitCodec /\ [][NextCodec]_vars

----------------------------------------------------------------------------
(* What a compressed message says, read off the wire.                      *)

\* the header a token of the wire stands for
Canonical(tok) ==
  IF tok # <<>> /\ Head(tok) = "!" THEN Tail(tok)
  ELSE IF tok \in DOMAIN rev_lookups THEN rev_lookups[tok]
  ELSE tok

\* the lines of the wire, by name
WireLines(wire) ==
  IF parse_http1(wire).err = "" THEN parse_http1(wire).val ELSE EmptyDict

\* the headers that the 'ref' header of the wire lists
WireRefs(wire) ==
  IF K_ref \in DOMAIN WireLines(wire)
  THEN {Canonical(t) : t \in Range(Split(WireLines(wire)[K_ref], ","))}
  ELSE {}

\* the headers that the wire carries on a name:value line
WireLiterals(wire) ==
  {Canonical(k) : k \in {k \in DOMAIN WireLines(wire) : k # K_ref /\ Head(k) # ":"}}

\* the headers of a message that are not metadata, once the hop-by-hop
\* headers are stripped
PlainHeaders(m) == {n \in DOMAIN strip_conn_headers(m) : Head(n) # ":"}

\* up to call i the trace is a replay: every compress is followed by the
\* decompress of what it returned, and decompress sees no other input
Replayed(i) ==
  \A j \in 1..i :
    /\ ~trace[j].crafted
    /\ (trace[j].op = "compress" /\ j < i) => trace[j + 1].op = "decompress"

\* the position of the compress call before call i, 0 when there is none
PrevCompress(i) ==
  IF \E j \in 1..(i - 1) : trace[j].op = "compress"
  THEN CHOOSE j \in 1..(i - 1) :
         /\ trace[j].op = "compress"
         /\ \A k \in (j + 1)..(i - 1) : trace[k].op # "compress"
  ELSE 0

----------------------------------------------------------------------------
(* The claims on the delta codec (SpecCodec).                              *)

\* C1: a message given to a freshly constructed Processor is decompressed
\* from what compress returns without an exception, and compare_headers
\* finds no difference between the message and the reconstruction.
C1_FreshRoundTrip ==
  /\ (Len(trace) >= 2 /\ trace[1].op = "compress" /\ trace[2].op = "decompress"
        /\ ~trace[2].crafted)
       => (trace[2].err = "" /\ trace[2].val # EmptyDict)
  /\ (Len(trace) >= 3 /\ trace[1].op = "compress" /\ trace[2].op = "decompress"
        /\ ~trace[2].crafted /\ trace[3].op = "compare")
       => (trace[3].err = "" /\ trace[3].differences = {})

\* C2: in a replay of messages on one Processor, every reconstruction equals
\* its message under compare_headers, and every header that compress sent as
\* a reference comes back with exactly the value it has in the message.
C2_ReplayRoundTrip ==
  \A i \in 2..Len(trace) :
    Replayed(i) =>
      /\ (trace[i].op = "decompress") =>
           /\ trace[i].err = ""
           /\ \A n \in WireRefs(trace[i].wire) :
                /\ n \in DOMAIN trace[i].val
                /\ n \in DOMAIN trace[i - 1].given
                /\ trace[i].val[n] = trace[i - 1].given[n]
      /\ (trace[i].op = "compare") =>
           (trace[i].err = "" /\ trace[i].differences = {})

\* C3: when a compress call is given a message identical to the one of the
\* compress call before it, every header of the message that is not metadata
\* is listed in the 'ref' header of what it returns, and none of them has a
\* name:value line.
C3_SecondCompressionRefs ==
  \A i \in 2..Len(trace) :
    (/\ trace[i].op = "compress"
     /\ trace[i].err = ""
     /\ PrevCompress(i) # 0
     /\ strip_conn_headers(trace[PrevCompress(i)].given)
          = strip_conn_headers(trace[i].given))
    => \A n \in PlainHeaders(trace[i].given) :
         /\ n \in WireRefs(trace[i].wire)
         /\ n \notin WireLiterals(trace[i].wire)

\* C4: a decompress call whose input lists in 'ref' a header that last_d
\* does not hold (last_d being None included) raises an exception.
C4_DanglingRefRaises ==
  \A i \in 1..Len(trace) :
    (/\ trace[i].op = "decompress"
     /\ \E n \in WireRefs(trace[i].wire) : n \notin DOMAIN trace[i].last_d)
    => trace[i].err # ""

----------------------------------------------------------------------------
(* The claims on the routing of hosts to connections (Spec).               *)

\* the connection registered under a name
ConnectionNamed(name) ==
  connections[CHOOSE i \in 1..Len(connections) : connections[i].name = name]

\* the names registered when message i was processed, in the order of
\* registration: those of the command line, then one per connection created
RegisteredBefore(i) ==
  SubSeq(registered, 1,
         Len(options.multiplex)
           + Cardinality({j \in 1..(i - 1) : log[j].created}))

\* the places in a list of registered names of the connections that match host
Matching(names, host) ==
  {k \in 1..Len(names) : matches(ConnectionNamed(names[k]), host)}

\* the last two labels of a host name
TrailingTwoLabels(host) ==
  IF Cardinality({j \in 1..Len(host) : host[j] = "."}) < 2 THEN host
  ELSE SubSeq(host,
              1 + (CHOOSE j \in 1..Len(host) :
                     /\ host[j] = "."
                     /\ Cardinality({k \in (j + 1)..Len(host) : host[k] = "."}) = 1),
              Len(host))

\* C5: every message is processed on the connection keyed by its host if one
\* is registered; otherwise on the earliest registered connection that
\* matches its host; otherwise, and only then, on a connection constructed
\* and registered for its host.
C5_EarliestRegisteredMatch ==
  \A i \in 1..Len(log) :
    IF \E k \in 1..Len(RegisteredBefore(i)) : RegisteredBefore(i)[k] = log[i].host
    THEN log[i].conn = log[i].host /\ ~log[i].created
    ELSE IF Matching(RegisteredBefore(i), log[i].host) # {}
    THEN /\ ~log[i].created
         /\ log[i].conn =
              RegisteredBefore(i)[CHOOSE k \in Matching(RegisteredBefore(i), log[i].host) :
                                    \A j \in Matching(RegisteredBefore(i), log[i].host) : k <= j]
    ELSE log[i].conn = log[i].host /\ log[i].created

\* C6: matches(host) holds exactly when host is the name of the connection,
\* or one of its compiled patterns matches host, or domain multiplexing is on
\* and the last two labels of host are one of its derived domain suffixes.
C6_MatchesIff ==
  \A i \in 1..Len(connections) : \A host \in Hosts :
    matches(connections[i], host)
      <=> \/ host = connections[i].name
          \/ \E k \in 1..Len(connections[i].patterns) :
               PatternMatch(connections[i].patterns[k], host)
          \/ /\ connections[i].glob
             /\ \E k \in 1..Len(connections[i].tlds) :
                  connections[i].tlds[k] = TrailingTwoLabels(host)

\* C7: with the multiplex group "*" declared, every message is processed on
\* the connection "*", and no other connection is ever registered.
C7_SingleConnection ==
  (options.multiplex = << <<"*">> >>) =>
    /\ Len(connections) = 1
    /\ \A i \in 1..Len(log) : log[i].conn = <<"*">> /\ ~log[i].created

\* C8: with the connections "*.example.com" and "example.org" declared, a
\* message to a subdomain of example.com is processed on "*.example.com", a
\* message to example.org on "example.org", and a message to any other host
\* on a connection keyed by that host.
C8_ExampleRouting ==
  (options.multiplex = << <<"*", ".", "example", ".", "com">>, H_org >>) =>
    \A i \in 1..Len(log) :
      log[i].conn =
        IF TrailingTwoLabels(log[i].host) = <<"example", ".", "com">>
        THEN <<"*", ".", "example", ".", "com">>
        ELSE log[i].host

----------------------------------------------------------------------------
(* The claims on the Processors of a run (Spec).                           *)

\* the positions of the messages of one direction processed on the
\* connection with the given name, in input order
ProcessedOn(name, message_type) ==
  SelectSeq([i \in 1..Len(log) |-> i],
            LAMBDA i : log[i].type = message_type /\ log[i].conn = name)

\* C9: for every connection, codec and direction, the messages passed to
\* compress of that Processor are the messages of that direction whose host
\* resolved to that connection, each once and in input order.
C9_OrderedSubsequence ==
  \A k \in 1..Len(connections) : \A name \in DOMAIN connections[k].compressors :
    \A d \in 1..2 :
      SelectSeq(calls[connections[k].compressors[name][d]], LAMBDA i : i <= done)
        = ProcessedOn(connections[k].name, msg_types[d])

\* two connections have processed one request each, the second of the input
\* on another connection than the first
C9_Witness ==
  /\ pc = "done"
  /\ \E k1, k2 \in 1..Len(connections) : \E name \in Range(codec_order) :
       /\ k1 # k2
       /\ calls[connections[k1].compressors[name][1]] = <<1>>
       /\ calls[connections[k2].compressors[name][1]] = <<3>>
       /\ calls[connections[k1].compressors[name][2]] = <<2>>

\* the Processors of the run: connection, codec, direction
Instances ==
  {x \in (1..Len(connections)) \X Range(codec_order) \X (1..2) : TRUE}

InstanceOf(x) == connections[x[1]].compressors[x[2]][x[3]]

\* no Processor belongs to two connections, or to both directions of one
DistinctInstances ==
  \A x, y \in Instances :
    (x[1] # y[1] \/ x[3] # y[3]) => InstanceOf(x) # InstanceOf(y)

\* the name of the connection on which the next message is processed
NextConnection ==
  IF get_connection(connections, messages[done + 1].host) # 0
  THEN connections[get_connection(connections, messages[done + 1].host)].name
  ELSE messages[done + 1].host

\* the Processors of that connection for the direction of the next message,
\* once the message is processed
Touched ==
  {c.compressors[name][TypeIndex(messages[done + 1].type)] :
     name \in Range(codec_order),
     c \in {c \in Range(connections') : c.name = NextConnection}}

\* processing the next message leaves last_c (the dict it refers to
\* included) and last_d of every other Processor as they are
OthersUnchanged ==
  (pc = "process" /\ done < Len(messages)) =>
    \A id \in 1..Len(procs) :
      id \notin Touched =>
        /\ procs'[id] = procs[id]
        /\ procs[id].last_c # NoObj
             => heap'[procs[id].last_c] = heap[procs[id].last_c]

\* C10: no Processor is shared by two connections or by the two directions
\* of a connection, and processing a message on one connection and direction
\* leaves the state of the Processors of every other connection and of the
\* other direction unchanged.
C10_Isolation == []DistinctInstances /\ [][OthersUnchanged]_vars

\* two connections hold state, and a message has been processed on the
\* second after the first had its state
C10_Witness ==
  /\ done >= 3
  /\ \E x, y \in Instances :
       /\ x[1] # y[1]
       /\ procs[InstanceOf(x)].last_c # NoObj
       /\ procs[InstanceOf(y)].last_c # NoObj
       /\ procs[InstanceOf(x)].codec = "simple"
       /\ procs[InstanceOf(x)].last_d_set

----------------------------------------------------------------------------
(* Warnings, mismatches and totals of a run.                               *)

\* the warnings written to sys.stderr for the codec name
Warnings(name) ==
  {i \in 1..Len(stderr) : stderr[i].line = "WARNING" /\ stderr[i].name = name}

\* the messages processed for which the codec name raised NotImplementedError
Unsupported(name) ==
  {i \in 1..Len(log) : name \in DOMAIN log[i].results /\ log[i].results[name].unsupported}

\* C11: over a run the warning that decompression is not checked is written
\* at most once per codec name, and a codec whose decompress raises
\* NotImplementedError is only left unverified: for every message its
\* compressed size is recorded, as are the results of the other codecs.
C11_WarnOnce ==
  /\ \A name \in Range(codec_order) : Cardinality(Warnings(name)) <= 1
  /\ \A i \in 1..Len(log) :
       /\ DOMAIN log[i].results = Range(codec_order)
       /\ \A name \in Range(codec_order) \cap NoDecompress :
            /\ log[i].results[name].unsupported
            /\ ~log[i].results[name].checked
            /\ log[i].results[name].size = PyLen(log[i].results[name].compressed)
            /\ log[i].results[name].size > 0

\* a run has ended in which a codec raised NotImplementedError for several
\* messages and was warned about
C11_Witness ==
  /\ pc = "done"
  /\ Cardinality(Warnings("write_only")) = 1
  /\ Cardinality(Unsupported("write_only")) >= 4

\* the comparisons of a run that found the decompressed headers to differ
Mismatches ==
  {x \in (1..Len(log)) \X Range(codec_order) :
     x[2] \in DOMAIN log[x[1]].results /\ log[x[1]].results[x[2]].differences # {}}

\* the messages of the given type that have been processed
Processed(message_type) == {i \in 1..Len(log) : log[i].type = message_type}

\* C12: headers that differ after the round trip do not stop anything: every
\* such difference is only reported on sys.stderr, every message processed has
\* the size of every codec recorded, each of them is in the totals of its
\* message type, and the loop over the messages never ends before the last
\* message.
C12_MismatchNotFatal ==
  /\ \A i \in 1..Len(log) :
       /\ DOMAIN log[i].results = Range(codec_order)
       /\ \A name \in Range(codec_order) :
            log[i].results[name].size = PyLen(log[i].results[name].compressed)
  /\ Cardinality({k \in 1..Len(stderr) : stderr[k].line = "COMPRESSION ERROR"})
       = Cardinality(Mismatches)
  /\ Len(log) = done
  /\ pc = "crashed" => done = Len(messages)
  /\ \A message_type \in Range(msg_types) : \A name \in Range(codec_order) :
       Processed(message_type) # {} =>
         /\ name \in DOMAIN ttls[message_type].by
         /\ Len(ttls[message_type].by[name].ratio_list)
              = Cardinality(Processed(message_type))

\* a run has ended in which the first codec of a message found a difference
\* and in which messages were processed after that message
C12_Witness ==
  /\ pc = "done"
  /\ Len(codec_order) >= 2
  /\ \E i \in 1..(Len(log) - 2) : <<i, codec_order[1]>> \in Mismatches

\* the sum of the compressed sizes of the codec name over the first k
\* messages processed, those of the given type only
RECURSIVE SizeSum(_, _, _)
SizeSum(name, message_type, k) ==
  IF k = 0 THEN 0
  ELSE SizeSum(name, message_type, k - 1)
         + (IF log[k].type = message_type THEN log[k].results[name].size ELSE 0)

\* the totals of every message type and codec are the sums of the sizes, and
\* the ratios are the totals over the total of the baseline
TotalsAndRatios ==
  \A message_type \in Range(msg_types) : \A name \in Range(codec_order) :
    /\ name \in DOMAIN ttls[message_type].by
    /\ ttls[message_type].by[name].size = SizeSum(name, message_type, Len(log))
    /\ ttls[message_type].by[name].ratio
         = Ratio(SizeSum(name, message_type, Len(log)),
                 SizeSum(options.baseline, message_type, Len(log)))
    /\ SizeSum(options.baseline, message_type, Len(log)) > 0

\* C13: once the loop over the messages has ended, process_messages returns,
\* for every message type and codec, the sum of the compressed sizes of the
\* messages of that type as the size, and that sum over the sum of the
\* baseline codec for the same type as the ratio.
C13_TotalsAndRatios ==
  (done = Len(messages) /\ pc # "process") => (pc = "done" /\ TotalsAndRatios)

\* what holds of C13: the totals and ratios that a run returns are right
C13_WhenReturned == pc = "done" => TotalsAndRatios

\* the k-th message of the given type in the order of processing
Nth(message_type, k) ==
  CHOOSE i \in Processed(message_type) :
    Cardinality({j \in Processed(message_type) : j <= i}) = k

\* the file of the message type holds the header line and then one line per
\* message of that type, in the order of processing, that starts with the
\* number of the line and carries the sizes and the connection of the message
TsvContent(message_type) ==
  /\ message_type \in DOMAIN files
  /\ Len(files[message_type]) = Cardinality(Processed(message_type)) + 1
  /\ files[message_type][1] = TsvHeader(SortedNames(Range(codec_order)))
  /\ \A k \in 1..Cardinality(Processed(message_type)) :
       /\ files[message_type][k + 1].first = <<k>>
       /\ files[message_type][k + 1].last = log[Nth(message_type, k)].conn
       /\ \A c \in 1..Len(SortedNames(Range(codec_order))) :
            files[message_type][k + 1].cols[c]
              = log[Nth(message_type, k)].results[SortedNames(Range(codec_order))[c]].size

\* C14: with -t, once the n messages of a type are processed, the TSV content
\* written for that type has n + 1 lines, the header and then one line per
\* message in the order of processing, numbered 1, 2, ..., n.
C14_TsvLines ==
  (options.tsv /\ done = Len(messages) /\ pc # "process") =>
    \A message_type \in Range(msg_types) : TsvContent(message_type)

\* what holds of C14: the files that a run writes are as described
C14_WhenWritten ==
  (options.tsv /\ pc = "done") =>
    \A message_type \in Range(msg_types) : TsvContent(message_type)

----------------------------------------------------------------------------
(* The table of tokens, dates and hop-by-hop headers of the delta codec.   *)

\* the Processors of the delta codec on which compress has been called
Used == {id \in 1..Len(procs) : procs[id].codec = "simple" /\ calls[id] # <<>>}

\* C15: no two names of lookups have the same token; the test for it is the
\* assert of Processor.__init__, so that with a table that had two such names
\* no Processor would come to exist: at every compress or decompress call of
\* a run, on whatever message, the Processor called is one whose construction
\* has passed the test, and the calls themselves make no such test.
C15_LookupsBijective ==
  /\ \A a, b \in DOMAIN lookups : a # b => lookups[a] # lookups[b]
  /\ \A name \in DOMAIN lookups : rev_lookups[lookups[name]] = name
  /\ \A id \in 1..Len(procs) : ProcessorInit(procs[id].codec) = ""
  /\ \A id \in 1..Len(calls) : calls[id] # <<>> => id \in 1..Len(procs)
  /\ Len(procs) = 2 * Len(codec_order) * Len(connections)

\* compress has been called on a Processor of the delta codec that was
\* constructed when messages had been processed on another connection
C15_Witness ==
  /\ \E i \in 3..Len(log) : log[i].created
  /\ \E id \in Used : id > 2 * Len(codec_order)

\* the date headers of a message whose value is a date in one of the three
\* grammars
Dated(m) ==
  {n \in DOMAIN m \cap date_hdrs : Len(m[n]) = 1 /\ \E f \in DateForms : f.tok = m[n][1]}

\* the instant that a date string denotes, a year of two digits y standing
\* for 1900 + y when y > 68 and for 2000 + y otherwise
Denoted(value) ==
  LET f == CHOOSE f \in DateForms : f.tok = value[1]
  IN  timegm(IF f.year >= 100 THEN f.year
             ELSE IF f.year > 68 THEN 1900 + f.year ELSE 2000 + f.year,
             f.rest)

\* C16: a date header whose value is in one of the three grammars is sent by
\* compress as the seconds since the epoch of the instant it denotes, in
\* hexadecimal, and decompress returns for it a date string that denotes the
\* same instant; a year of two digits y is read as 1900 + y when y > 68 and
\* as 2000 + y otherwise.
C16_DateRoundTrip ==
  /\ \A y \in 0..99 : FullYear(y) = IF y > 68 THEN 1900 + y ELSE 2000 + y
  /\ \A i \in 1..Len(trace) :
       trace[i].op = "compress" =>
         /\ trace[i].err = ""
         /\ \A n \in Dated(trace[i].given) :
              /\ lookups[n] \in DOMAIN WireLines(trace[i].wire)
              /\ WireLines(trace[i].wire)[lookups[n]] = <<Hex(Denoted(trace[i].given[n]))>>
  /\ \A i \in 2..Len(trace) :
       (trace[i].op = "decompress" /\ ~trace[i].crafted /\ trace[i].err = "") =>
         \A n \in Dated(trace[i - 1].given) :
           /\ n \in DOMAIN trace[i].val
           /\ n \in Dated(trace[i].val)
           /\ Denoted(trace[i].val[n]) = Denoted(trace[i - 1].given[n])

\* a message with dates in the three grammars, with a year of two digits
\* above 68 and one below, has been compressed and decompressed
C16_Witness ==
  \E i \in 2..Len(trace) :
    /\ trace[i].op = "decompress" /\ ~trace[i].crafted /\ trace[i].err = ""
    /\ Dated(trace[i - 1].given) = date_hdrs
    /\ trace[i].val[<<"date">>] = <<"Thu, 01 Jan 2037 00:00:00 GMT">>
    /\ trace[i].val[<<"last-modified">>] = <<"Wed, 01 Jan 1969 00:00:00 GMT">>
    /\ trace[i].val[<<"expires">>] = <<"Thu, 01 Jan 1970 00:00:00 GMT">>

\* the date headers of a message whose value parse_date does not accept
Undated(m) == {n \in DOMAIN m \cap date_hdrs : parse_date(m[n]).err # ""}

\* C17: a date header whose value does not parse as a date is sent by
\* compress as it is, and decompress returns it with that same value; neither
\* call raises for it.
C17_UnparsedDateLiteral ==
  /\ \A i \in 1..Len(trace) :
       trace[i].op = "compress" =>
         /\ trace[i].err = ""
         /\ \A n \in Undated(trace[i].given) :
              /\ lookups[n] \in DOMAIN WireLines(trace[i].wire)
              /\ WireLines(trace[i].wire)[lookups[n]] = trace[i].given[n]
  /\ \A i \in 2..Len(trace) :
       (trace[i].op = "decompress" /\ ~trace[i].crafted /\ Replayed(i)) =>
         /\ trace[i].err = ""
         /\ \A n \in Undated(trace[i - 1].given) :
              /\ n \in DOMAIN trace[i].val
              /\ trace[i].val[n] = trace[i - 1].given[n]

\* the header names that the value of a Connection header lists
Listed(value) == {<<tok>> : tok \in Range(value) \ (Whitespace \cup {","})}

\* the hop-by-hop headers of a message: the five that are always such, and
\* those that its Connection header lists
HopHeaders(m) ==
  {<<"transfer-encoding">>, <<"te">>, <<"keep-alive">>, <<"trailers">>, K_connection}
  \cup (IF K_connection \in DOMAIN m THEN Listed(m[K_connection]) ELSE {})

\* C18: when compress has stripped a message, the message has none of
\* transfer-encoding, te, keep-alive, trailers and connection, and no header
\* that its Connection header listed; every other header is there with its
\* value; and stripping the message once more changes nothing.
C18_HopByHopStripped ==
  (/\ trace # <<>>
   /\ trace[Len(trace)].op = "compress"
   /\ trace[Len(trace)].err = "") =>
    /\ DOMAIN heap[trace[Len(trace)].obj] \cap HopHeaders(trace[Len(trace)].given) = {}
    /\ \A n \in DOMAIN trace[Len(trace)].given \ HopHeaders(trace[Len(trace)].given) :
         /\ n \in DOMAIN heap[trace[Len(trace)].obj]
         /\ heap[trace[Len(trace)].obj][n] = trace[Len(trace)].given[n]
    /\ strip_conn_headers(heap[trace[Len(trace)].obj]) = heap[trace[Len(trace)].obj]

----------------------------------------------------------------------------
(* The state of the Processors over a run.                                 *)

\* the messages processed after message i on the connection and in the
\* direction of message i
Successors(i) ==
  {k \in (i + 1)..Len(log) : log[k].conn = log[i].conn /\ log[k].type = log[i].type}

\* C19: when compress is called on a Processor of the delta codec in a run,
\* last_c is the message compressed before on that connection and in that
\* direction, and every header of it has the value it had when that message
\* was compressed: neither decompress, nor the comparison with its sorting of
\* cookies, nor another codec has changed it in between.
C19_LastSentIntact ==
  /\ \A id \in Used : procs[id].last_c = calls[id][Len(calls[id])]
  /\ \A i \in 1..Len(log) :
       ("simple" \in DOMAIN log[i].results /\ Successors(i) # {}) =>
         heap[i] = log[i].results["simple"].in_headers

\* C20: over a run, get_connection returns for every host the connection it
\* returned at the first call for that host, whatever connections have been
\* registered since.
C20_StableRouting ==
  \A i, j \in 1..Len(log) : log[i].host = log[j].host => log[i].conn = log[j].conn

----------------------------------------------------------------------------
(* The two ends of the delta codec over a run.                             *)

\* the messages processed before message i on the connection and in the
\* direction of message i
Predecessors(i) ==
  {k \in 1..(i - 1) : log[k].conn = log[i].conn /\ log[k].type = log[i].type}

\* last_d of the receiving Processor when the wire of message i reached
\* decompress: what decompress returned for the message before on that
\* connection and in that direction, nothing when there is none
LastReceived(i) ==
  IF Predecessors(i) = {} THEN EmptyDict
  ELSE log[CHOOSE k \in Predecessors(i) : \A j \in Predecessors(i) : j <= k]
         .results["simple"].decompressed

\* the messages of the run that compress of the delta codec sent with
\* references
SentWithRefs ==
  {i \in 1..Len(log) :
     /\ "simple" \in DOMAIN log[i].results
     /\ WireRefs(log[i].results["simple"].compressed) # {}}

\* the headers that the 'ref' header among the parsed lines of a wire lists
RefsAmong(lines) ==
  IF lines.err = "" /\ K_ref \in DOMAIN lines.val
  THEN {Canonical(t) : t \in Range(Split(lines.val[K_ref], ","))}
  ELSE {}

\* the receiving side, holding last, can resolve the references refs, and
\* decompress has resolved them from it
Resolved(refs, last, decompressed) ==
  refs # {} =>
    /\ last # EmptyDict
    /\ refs \subseteq DOMAIN last
    /\ \A n \in refs : n \in DOMAIN decompressed /\ decompressed[n] = last[n]

\* C21: in a run, where decompress is given what compress of the same
\* Processor has just returned, every header that compress sends as a
\* reference has an entry in last_d of the receiving side, which is not
\* empty, and decompress gives the header the value it has there.  With the
\* baseline codec among the codecs of the run, no message ends the run: the
\* KeyError of a reference that cannot be resolved is not raised.  The side
\* that has received holds what decompress returned last.
C21_RefsResolvable ==
  /\ pc = "crashed" => done = Len(messages)
  /\ \A i \in 1..Len(log) :
       "simple" \in DOMAIN log[i].results =>
         Resolved(RefsAmong(parse_http1(log[i].results["simple"].compressed)),
                  LastReceived(i), log[i].results["simple"].decompressed)
  /\ \A id \in Used :
       /\ procs[id].last_d_set
       /\ calls[id][Len(calls[id])] <= Len(log) =>
            procs[id].last_d
              = log[calls[id][Len(calls[id])]].results["simple"].decompressed

\* two messages of one direction have gone over one connection, and the
\* second was sent with a reference to a header of the first
C21_Witness ==
  \E i \in SentWithRefs :
    /\ Predecessors(i) # {}
    /\ \E n \in WireRefs(log[i].results["simple"].compressed) :
         n \in DOMAIN LastReceived(i)

----------------------------------------------------------------------------
(* The end of process_messages.                                            *)

\* what process_messages has returned holds, for every codec of the command
\* line and every message type, a ratio and a deviation
Statistics ==
  \A message_type \in Range(msg_types) : \A name \in Range(options.codec) :
    /\ name \in DOMAIN ttls[message_type].by
    /\ ttls[message_type].by[name].ratio # NoRatio
    /\ ttls[message_type].by[name].ratio.den > 0
    /\ ttls[message_type].by[name].std.err = ""
    /\ ttls[message_type].by[name].std.val.divisor > 0

\* C22: for every input of at least one request/response pair, the input of
\* exactly one pair included, no exception ends process_messages (no
\* division by a baseline size of zero, none by n - 1 = 0), and what it
\* returns has a ratio and a sample standard deviation for every codec of
\* the command line and every message type.
C22_ReturnsStatistics ==
  /\ pc # "crashed"
  /\ pc = "done" => Statistics

\* the same for the inputs of two pairs and more, where it holds
C22_WhenTwoPairs ==
  Len(messages) >= 4 => C22_ReturnsStatistics

\* the number of input messages of one type
InputMessages(message_type) ==
  Cardinality({i \in 1..Len(messages) : messages[i].type = message_type})

\* C23: once process_messages has returned, the count recorded for each
\* message type, which print_results writes as "N <type> messages
\* processed", is the number of input messages of that type, so that the
\* count of requests and the count of responses add up to the number of
\* messages processed.
C23_CountPerType ==
  pc = "done" =>
    /\ \A message_type \in Range(msg_types) :
         MessagesProcessed(ttls[message_type], message_type).count
           = InputMessages(message_type)
    /\ MessagesProcessed(ttls["req"], "req").count
         + MessagesProcessed(ttls["res"], "res").count = done

\* what the count is: the number of all input messages, for either type
C23_CountOfAll ==
  pc = "done" =>
    \A message_type \in Range(msg_types) :
      MessagesProcessed(ttls[message_type], message_type).count = Len(messages)

====
